---- MODULE Spec2Model ----
(***************************************************************************)
(* Model of scripts/generate.ts: markdownEscape, formatTable,               *)
(* generateMarkdown and the README splice performed by generate.           *)
(*                                                                         *)
(* A JavaScript string is modelled as a sequence of one-character strings, *)
(* so that length, padEnd, join and replace are computed character by      *)
(* character.  A string[][] table is a sequence of rows, each a sequence   *)
(* of such strings.                                                        *)
(***************************************************************************)
EXTENDS Integers, Sequences, FiniteSets, TLC

VARIABLES
  table,      \* formatTable: the array object the caller passes
  table0,     \* formatTable: the value of that array before the first call
  ret,        \* formatTable: the strings returned by the calls made so far
  text,       \* markdownEscape: the argument
  escaped,    \* markdownEscape: the value returned (Pending before the call)
  manifest,   \* generate: the parsed package.json
  readme,     \* generate: the content of README.md on disk
  raw,        \* generate: the local `raw` of the last run
  content,    \* generate: the local `content` of the last run
  tables,     \* generate: the local `markdown` of the last run
  writes,     \* generate: number of writeFile calls of the last run
  runs        \* generate: number of completed runs

vars == <<table, table0, ret, text, escaped, manifest, readme, raw, content,
          tables, writes, runs>>

fmtVars == <<table, table0, ret>>
escVars == <<text, escaped>>
genVars == <<manifest, readme, raw, content, tables, writes, runs>>

----------------------------------------------------------------------------
(* Bounds of the explored inputs.                                          *)

MaxRows == 2      \* rows of an enumerated table (header included)
MaxCols == 2      \* cells of an enumerated row
MaxCalls == 2     \* calls of formatTable on one table object
MaxTextLen == 3   \* characters of an enumerated markdownEscape argument
MaxItems == 1     \* commands / preferences of an enumerated manifest
MaxRuns == 2      \* runs of generate on one README

Pending == <<"?pending?">>
Idle == <<>>

----------------------------------------------------------------------------
(* String helpers: JavaScript built-ins used by the script.                *)

RECURSIVE Repeat(_, _)
\* String.prototype.repeat; a NaN count converts to 0
Repeat(s, n) == IF n <= 0 THEN <<>> ELSE s \o Repeat(s, n - 1)

RECURSIVE Join(_, _)
\* Array.prototype.join
Join(parts, sep) ==
  IF Len(parts) = 0 THEN <<>>
  ELSE IF Len(parts) = 1 THEN parts[1]
  ELSE parts[1] \o sep \o Join(Tail(parts), sep)

\* Math.max(undefined, n) and Math.max(NaN, n) are NaN
NaN == -1

MathMax(a, b) == IF a = NaN \/ b = NaN THEN NaN ELSE IF a >= b THEN a ELSE b

\* String.prototype.padEnd(w, ' '); a NaN target length converts to 0
PadEnd(s, w) == IF w = NaN \/ w <= Len(s) THEN s ELSE s \o Repeat(<<" ">>, w - Len(s))

----------------------------------------------------------------------------
(* markdownEscape                                                          *)

RECURSIVE ReplaceAllChar(_, _, _)
\* String.prototype.replaceAll with a one-character pattern and a
\* replacement without `$`
ReplaceAllChar(s, ch, rep) ==
  IF Len(s) = 0 THEN <<>>
  ELSE (IF s[1] = ch THEN rep ELSE <<s[1]>>) \o ReplaceAllChar(Tail(s), ch, rep)

Amp == <<"&","a","m","p",";">>
Lt == <<"&","l","t",";">>
Gt == <<"&","g","t",";">>
Vert == <<"&","v","e","r","t",";">>

markdownEscapeAmpLast(s) ==
  ReplaceAllChar(ReplaceAllChar(ReplaceAllChar(ReplaceAllChar(s,
    "<", Lt), ">", Gt), "|", Vert), "&", Amp)

markdownEscape(s) ==
  ReplaceAllChar(ReplaceAllChar(ReplaceAllChar(ReplaceAllChar(s,
    "&", Amp), "<", Lt), ">", Gt), "|", Vert)

----------------------------------------------------------------------------
(* formatTable                                                             *)

NoData == <<"*","*","N","o"," ","d","a","t","a","*","*">>

IsEmptyTableOrHeaderOnly(t) == Len(t) <= 1

\* `if (!table.length)`
IsEmptyTable(t) == Len(t) = 0

\* Array.from({ length: header.length }).fill(0)
InitColChars(header) == [i \in 1..Len(header) |-> 0]

\* colChars[idx], undefined (hence NaN under Math.max) past the end
ColCharAt(colChars, idx) == IF idx <= Len(colChars) THEN colChars[idx] ELSE NaN

\* colChars[idx] = v; idx is at most one past the end here
SetColChar(colChars, idx, v) ==
  IF idx <= Len(colChars) THEN [colChars EXCEPT ![idx] = v]
  ELSE Append(colChars, v)

RECURSIVE MeasureRow(_, _, _)
\* the inner row.forEach of the measuring pass, from index idx on
MeasureRow(colChars, row, idx) ==
  IF idx > Len(row) THEN colChars
  ELSE MeasureRow(
         SetColChar(colChars, idx, MathMax(ColCharAt(colChars, idx), Len(row[idx]))),
         row, idx + 1)

RECURSIVE MeasureRows(_, _, _)
\* the outer table.forEach of the measuring pass, from row r on
MeasureRows(colChars, t, r) ==
  IF r > Len(t) THEN colChars
  ELSE MeasureRows(MeasureRow(colChars, t[r], 1), t, r + 1)

ColCharsHeaderOnly(t) == MeasureRow(InitColChars(t[1]), t[1], 1)

\* colChars after the measuring pass
ColChars(t) == MeasureRows(InitColChars(t[1]), t, 1)

PaddedCellOneMore(col, w) == PadEnd(col, w + 1)

\* col?.padEnd(colChars[colIdx], ' ') || '' for a string col (the cells of a
\* string[][] are never undefined); an empty result stays the empty string
PaddedCell(col, w) == PadEnd(col, w)

\* the table after the padding pass: every existing cell is overwritten
PaddedTable(t) ==
  LET colChars == ColChars(t)
  IN  [r \in 1..Len(t) |->
        [c \in 1..Len(t[r]) |-> PaddedCell(t[r][c], ColCharAt(colChars, c))]]

\* `| ${row.join(' | ')} |`
RowLine(row) == <<"|", " ">> \o Join(row, <<" ", "|", " ">>) \o <<" ", "|">>

SeparatorLineMin3(colChars) ==
  RowLine([i \in 1..Len(colChars) |->
             Repeat(<<"-">>, IF colChars[i] < 3 THEN 3 ELSE colChars[i])])

\* `| ${colChars.map(w => '-'.repeat(w)).join(' | ')} |`
SeparatorLine(colChars) ==
  RowLine([i \in 1..Len(colChars) |-> Repeat(<<"-">>, colChars[i])])

\* the value formatTable returns
FormatTableReturn(t) ==
  IF IsEmptyTable(t) THEN NoData
  ELSE LET p == PaddedTable(t)
       IN  Join(<<RowLine(p[1]), SeparatorLine(ColChars(t))>>
                  \o [k \in 1..(Len(p) - 1) |-> RowLine(p[k + 1])],
                <<"\n">>)

\* the caller's array after the call
FormatTableEffect(t) == IF IsEmptyTable(t) THEN t ELSE PaddedTable(t)

----------------------------------------------------------------------------
(* Inputs of formatTable.                                                  *)

Cells == { <<>>, <<"a">>, <<"b", "c">> }

Rows == UNION { [1..k -> Cells] : k \in 0..MaxCols }

BoundedTables == UNION { [1..n -> Rows] : n \in 0..MaxRows }

ExampleTable ==
  << << <<"T","i","t","l","e">>, <<"D","e","s","c","r","i","p","t","i","o","n">> >>,
     << <<"x">>, <<"a"," ","l","o","n","g","e","r"," ","v","a","l","u","e">> >> >>

HeaderOnlyTable == << << <<"A">>, <<"B">> >> >>

InputTables == BoundedTables \cup {ExampleTable, HeaderOnlyTable}

InitFmt ==
  /\ table \in InputTables
  /\ table0 = table
  /\ ret = <<>>

InitEscIdle == text = Idle /\ escaped = Pending

InitGenIdle ==
  /\ manifest = Idle /\ readme = Idle /\ raw = Idle /\ content = Idle
  /\ tables = Idle /\ writes = 0 /\ runs = 0

\* one call formatTable(table) by the owner of `table`
CallFormatTable ==
  /\ Len(ret) < MaxCalls
  /\ ret' = Append(ret, FormatTableReturn(table))
  /\ table' = FormatTableEffect(table)
  /\ UNCHANGED <<table0, escVars, genVars>>

InitFormatTable == InitFmt /\ InitEscIdle /\ InitGenIdle

SpecFmt == InitFormatTable /\ [][CallFormatTable]_vars

----------------------------------------------------------------------------
(* markdownEscape as an operation of its own.                              *)

EscAlphabet == {"&", "<", ">", "|", "a", ";"}

Texts == UNION { [1..n -> EscAlphabet] : n \in 0..MaxTextLen }

InitFmtIdle == table = Idle /\ table0 = Idle /\ ret = Idle

InitEsc == text \in Texts /\ escaped = Pending

\* one call markdownEscape(text)
CallMarkdownEscape ==
  /\ escaped = Pending
  /\ escaped' = markdownEscape(text)
  /\ UNCHANGED <<text, fmtVars, genVars>>

InitMarkdownEscape == InitFmtIdle /\ InitEsc /\ InitGenIdle

SpecEsc == InitMarkdownEscape /\ [][CallMarkdownEscape]_vars

----------------------------------------------------------------------------
(* generateMarkdown                                                        *)
(* An optional list (commands?, preferences?) and an optional default are  *)
(* records with a `present` flag; `required` is "absent", "true" or        *)
(* "false".                                                                *)

Absent == [present |-> FALSE, value |-> <<>>]
Present(v) == [present |-> TRUE, value |-> v]

CommandsHeader ==
  << <<"T","i","t","l","e">>, <<"D","e","s","c","r","i","p","t","i","o","n">> >>

ConfigsHeader ==
  << <<"K","e","y">>, <<"D","e","s","c","r","i","p","t","i","o","n">>,
     <<"R","e","q","u","i","r","e","d">>, <<"D","e","f","a","u","l","t">> >>

\* the backtick character (a string of the module cannot hold it)
Backtick == "BACKTICK"

\* the template literal wrapping s in backticks
Backticked(s) == <<Backtick>> \o s \o <<Backtick>>

\* String(p.default)
StringOf(d) ==
  IF d.present THEN d.value ELSE <<"u","n","d","e","f","i","n","e","d">>

\* p.required ? Yes : No
YesNo(required) == IF required = "true" THEN <<"Y","e","s">> ELSE <<"N","o">>

\* packageJson?.commands?.length, packageJson?.preferences?.length
HasItems(list) == list.present /\ Len(list.value) > 0

CommandRow(c) == <<Backticked(c.title), markdownEscape(c.description)>>

PreferenceRow(p) ==
  << Backticked(p.name), markdownEscape(p.description),
     Backticked(YesNo(p.required)), markdownEscape(StringOf(p.default)) >>

CommandsTableKeepsHeader(m) ==
  <<CommandsHeader>> \o
    (IF HasItems(m.commands)
     THEN [i \in 1..Len(m.commands.value) |-> CommandRow(m.commands.value[i])]
     ELSE <<>>)

\* commandsTable as passed to formatTable
CommandsTable(m) ==
  IF HasItems(m.commands)
  THEN <<CommandsHeader>> \o
         [i \in 1..Len(m.commands.value) |-> CommandRow(m.commands.value[i])]
  ELSE <<>>

\* configsTable as passed to formatTable
ConfigsTable(m) ==
  IF HasItems(m.preferences)
  THEN <<ConfigsHeader>> \o
         [i \in 1..Len(m.preferences.value) |-> PreferenceRow(m.preferences.value[i])]
  ELSE <<>>

generateMarkdown(m) ==
  [ commandsTable |-> FormatTableReturn(CommandsTable(m)),
    configsTable |-> FormatTableReturn(ConfigsTable(m)) ]

----------------------------------------------------------------------------
(* The splice of generate.                                                 *)
(* A document is a sequence of tokens: one-character strings, and the four *)
(* marker comments, each a single token.  The capture groups and the two   *)
(* literal pieces of the replacement template are tokens as well.          *)

MarkerOpen == "<!-- "
MarkerClose == " -->"

Marker(group) == MarkerOpen \o group \o MarkerClose

CommandsGroups == {"commands", "commands-table"}
ConfigsGroups == {"configs", "configs-table"}
Groups == CommandsGroups \cup ConfigsGroups

Markers(groups) == { Marker(g) : g \in groups }

\* the text captured by (commands|commands-table) or (configs|configs-table)
GroupOf(marker) == CHOOSE g \in Groups : Marker(g) = marker

NN == <<"\n", "\n">>

\* the template literal <!-- $1 -->\n\n${rendered}\n\n<!-- $2 -->
Replacement(rendered) ==
  <<MarkerOpen, "$", "1", MarkerClose>> \o NN \o rendered \o NN
    \o <<MarkerOpen, "$", "2", MarkerClose>>

RECURSIVE ConcatRange(_, _, _)
\* pieces[lo] \o ... \o pieces[hi]
ConcatRange(pieces, lo, hi) ==
  IF lo > hi THEN <<>>
  ELSE IF lo = hi THEN pieces[lo]
  ELSE LET mid == (lo + hi) \div 2
       IN  ConcatRange(pieces, lo, mid) \o ConcatRange(pieces, mid + 1, hi)

ConcatAll(pieces) ==
  CHOOSE result \in { ConcatRange(ps, 1, Len(ps)) : ps \in {pieces} } : TRUE

\* the number of consecutive $ right before position p
DollarsBefore(rep, p) ==
  LET others == { q \in 1..(p - 1) : rep[q] # "$" }
  IN  IF others = {} THEN p - 1
      ELSE p - 1 - (CHOOSE q \in others : \A r \in others : r <= q)

\* a left-to-right scan reads position p as the $ that opens a pattern:
\* the $ before it pair up as $$
OpensPattern(rep, p) ==
  /\ p >= 1 /\ p <= Len(rep)
  /\ rep[p] = "$"
  /\ DollarsBefore(rep, p) % 2 = 0

\* the characters after the $ at p that belong to its pattern (0: the $
\* stands for itself)
PatternTail(rep, p) ==
  IF p = Len(rep) THEN 0
  ELSE IF rep[p + 1] \in {"$", "&", Backtick, "'", "1", "2"} THEN 1
  ELSE IF rep[p + 1] = "0" /\ p + 2 <= Len(rep) /\ rep[p + 2] \in {"1", "2"} THEN 2
  ELSE 0

\* what position p of the replacement string contributes to the result
Substituted(rep, p, matched, before, after, captures) ==
  IF OpensPattern(rep, p)
  THEN IF PatternTail(rep, p) = 0 THEN <<"$">>
       ELSE IF PatternTail(rep, p) = 2
            THEN <<captures[IF rep[p + 2] = "1" THEN 1 ELSE 2]>>
       ELSE IF rep[p + 1] = "$" THEN <<"$">>
       ELSE IF rep[p + 1] = "&" THEN matched
       ELSE IF rep[p + 1] = Backtick THEN before
       ELSE IF rep[p + 1] = "'" THEN after
       ELSE <<captures[IF rep[p + 1] = "1" THEN 1 ELSE 2]>>
  ELSE IF \/ OpensPattern(rep, p - 1) /\ PatternTail(rep, p - 1) >= 1
          \/ OpensPattern(rep, p - 2) /\ PatternTail(rep, p - 2) = 2
       THEN <<>>
  ELSE <<rep[p]>>

\* GetSubstitution: the expansion of the $ patterns of a replacement string,
\* for a regular expression with two capture groups and no named group
\* ($$, $&, $ and a backtick, $', $1, $2, $01, $02; any other $ stands for
\* itself)
GetSubstitution(rep, matched, before, after, captures) ==
  ConcatAll([p \in 1..Len(rep) |->
               Substituted(rep, p, matched, before, after, captures)])

StartsMarker(doc, i) ==
  /\ i >= 1 /\ i + 2 <= Len(doc)
  /\ doc[i] = MarkerOpen /\ doc[i + 1] \in Groups /\ doc[i + 2] = MarkerClose

\* the characters <!-- , a group name and  --> in a row are a marker
Tokenize(doc) ==
  ConcatAll([i \in 1..Len(doc) |->
               IF StartsMarker(doc, i) THEN <<Marker(doc[i + 1])>>
               ELSE IF StartsMarker(doc, i - 1) \/ StartsMarker(doc, i - 2) THEN <<>>
               ELSE <<doc[i]>>])

\* the first match of /<!-- (g) -->[\s\S]*?<!-- (g) -->/ in doc, g among
\* groups: <<from, to>>, or <<0, 0>> without a match
FirstMatch(doc, groups) ==
  LET opens == { i \in 1..Len(doc) :
                   /\ doc[i] \in Markers(groups)
                   /\ \E j \in (i + 1)..Len(doc) : doc[j] \in Markers(groups) }
  IN  IF opens = {} THEN <<0, 0>>
      ELSE LET i == CHOOSE x \in opens : \A y \in opens : x <= y
               closes == { j \in (i + 1)..Len(doc) : doc[j] \in Markers(groups) }
           IN  <<i, CHOOSE x \in closes : \A y \in closes : x <= y>>

\* the match replaced by the expansion of the replacement string
Substitute(doc, m, rep) ==
  CHOOSE result \in
    { SubSeq(doc, 1, m[1] - 1) \o Tokenize(expanded) \o SubSeq(doc, m[2] + 1, Len(doc)) :
        expanded \in
          { GetSubstitution(rep, matched, before, after,
                            <<GroupOf(doc[m[1]]), GroupOf(doc[m[2]])>>) :
              matched \in {SubSeq(doc, m[1], m[2])},
              before \in {SubSeq(doc, 1, m[1] - 1)},
              after \in {SubSeq(doc, m[2] + 1, Len(doc))} } } : TRUE

\* doc.replace(/<!-- (g) -->[\s\S]*?<!-- (g) -->/, Replacement(rendered))
\* (the singleton sets name intermediate values)
ReplaceFirst(doc, groups, rendered) ==
  CHOOSE result \in
    { IF m[1] = 0 THEN doc ELSE Substitute(doc, m, rep) :
        m \in {FirstMatch(doc, groups)}, rep \in {Replacement(rendered)} } : TRUE

\* the local `content` of generate: the two replace calls in a row
Splice(doc, markdown) ==
  CHOOSE result \in
    { ReplaceFirst(afterCommands, ConfigsGroups, markdown.configsTable) :
        afterCommands \in {ReplaceFirst(doc, CommandsGroups, markdown.commandsTable)} } : TRUE

----------------------------------------------------------------------------
(* Inputs of generate.                                                     *)

Titles == { <<"t">> }
Descriptions == { <<"d">>, <<"$", "$">>, <<"$", "&">> }
Names == { <<"k">> }
PrefDescriptions == { <<"<", "|">> }
Requireds == { "absent", "true", "false" }
Defaults == { Absent, Present(<<"$", "1">>) }

Commands == [title : Titles, description : Descriptions]
Preferences ==
  [name : Names, description : PrefDescriptions, required : Requireds,
   default : Defaults]

ListsOf(S) == {Absent} \cup { Present(l) : l \in UNION { [1..n -> S] : n \in 0..MaxItems } }

Manifests == [commands : ListsOf(Commands), preferences : ListsOf(Preferences)]

\* a README whose two regions hold something else
StaleReadme ==
  <<"#", "\n", Marker("commands"), "o", "l", "d", Marker("commands"), "\n", "x",
    "\n", Marker("configs"), Marker("configs"), "\n", "z">>

\* a README whose two regions hold the tables rendered from m
FreshReadme(m) ==
  <<"#", "\n", Marker("commands-table")>> \o NN \o generateMarkdown(m).commandsTable
    \o NN \o <<Marker("commands-table"), "\n", "x", "\n", Marker("configs-table")>>
    \o NN \o generateMarkdown(m).configsTable \o NN
    \o <<Marker("configs-table"), "\n", "z">>

\* configs before commands, mixed marker names
ReorderedReadme ==
  <<Marker("configs"), "\n", Marker("configs-table"), "y",
    Marker("commands-table"), Marker("commands"), "\n">>

\* no configs region, a lone third commands marker
CommandsOnlyReadme ==
  <<"#", Marker("commands"), "\n", Marker("commands"), "w", Marker("commands")>>

NoMarkerReadme == <<"#", "\n", "x">>

Readmes(m) ==
  { StaleReadme, FreshReadme(m), ReorderedReadme, CommandsOnlyReadme, NoMarkerReadme }

NoTables == [commandsTable |-> <<>>, configsTable |-> <<>>]

InitGen ==
  /\ manifest \in Manifests
  /\ readme \in Readmes(manifest)
  /\ raw = <<>> /\ content = <<>> /\ tables = NoTables
  /\ writes = 0 /\ runs = 0

\* one run of generate: read package.json and README.md, splice, and write
\* README.md back if the content changed
Generate ==
  /\ runs < MaxRuns
  /\ \E markdown \in {generateMarkdown(manifest)} :
       \E spliced \in {Splice(readme, markdown)} :
         /\ tables' = markdown
         /\ raw' = readme
         /\ content' = spliced
         /\ readme' = (IF readme # spliced THEN spliced ELSE readme)
         /\ writes' = (IF readme # spliced THEN 1 ELSE 0)
  /\ runs' = runs + 1
  /\ UNCHANGED <<manifest, fmtVars, escVars>>

InitGenerate == InitFmtIdle /\ InitEscIdle /\ InitGen

SpecGen == InitGenerate /\ [][Generate]_vars

----------------------------------------------------------------------------
(* Reading a rendered table back: lines, and the fields of a line.         *)

IsAt(s, i, sep) ==
  /\ i + Len(sep) - 1 <= Len(s)
  /\ SubSeq(s, i, i + Len(sep) - 1) = sep

Least(S) == CHOOSE x \in S : \A y \in S : x <= y

RECURSIVE Split(_, _)
Split(s, sep) ==
  LET at == { i \in 1..Len(s) : IsAt(s, i, sep) }
  IN  IF at = {} THEN <<s>>
      ELSE <<SubSeq(s, 1, Least(at) - 1)>>
             \o Split(SubSeq(s, Least(at) + Len(sep), Len(s)), sep)

Lines(out) == Split(out, <<"\n">>)

\* the texts between the delimiters of a line `| f1 | f2 | ... |`
Fields(line) == Split(SubSeq(line, 3, Len(line) - 2), <<" ", "|", " ">>)

Framed(line) ==
  /\ Len(line) >= 4
  /\ SubSeq(line, 1, 2) = <<"|", " ">>
  /\ SubSeq(line, Len(line) - 1, Len(line)) = <<" ", "|">>

AllOf(s, ch) == \A k \in 1..Len(s) : s[k] = ch

\* f is the cell followed by spaces only
IsCellThenSpaces(f, cell) ==
  /\ Len(f) >= Len(cell)
  /\ SubSeq(f, 1, Len(cell)) = cell
  /\ AllOf(SubSeq(f, Len(cell) + 1, Len(f)), " ")

Rectangular(t) == \A r \in 1..Len(t) : Len(t[r]) = Len(t[1])

\* the longest cell of column i, every row included
LongestIn(t, i) ==
  LET lens == { Len(t[r][i]) : r \in 1..Len(t) }
  IN  CHOOSE m \in lens : \A n \in lens : n <= m

Called == Len(ret) >= 1

----------------------------------------------------------------------------
(* Claims about formatTable, checked under SpecFmt.                        *)

\* C1: for a non-empty table whose rows all have the header's cell count,
\* every rendered line (header, separator, body) has, in every column i,
\* exactly LongestIn(i) characters between the delimiters: the cell followed
\* by spaces on the header and body lines, dashes only on the separator.
C1_ColumnWidths ==
  (Called /\ Len(table0) >= 1 /\ Rectangular(table0) /\ Len(table0[1]) >= 1) =>
    LET lines == Lines(ret[1])
        n == Len(table0[1])
    IN  /\ Len(lines) = Len(table0) + 1
        /\ \A l \in 1..Len(lines) :
             /\ Framed(lines[l])
             /\ Len(Fields(lines[l])) = n
             /\ \A i \in 1..n : Len(Fields(lines[l])[i]) = LongestIn(table0, i)
        /\ \A i \in 1..n :
             /\ IsCellThenSpaces(Fields(lines[1])[i], table0[1][i])
             /\ AllOf(Fields(lines[2])[i], "-")
             /\ \A r \in 2..Len(table0) :
                  IsCellThenSpaces(Fields(lines[r + 1])[i], table0[r][i])

C1_Witness ==
  /\ Called
  /\ table0 = << << <<"a">>, <<"b", "c">> >>, << <<"b", "c">>, <<>> >> >>

\* C2: for every non-empty table, jagged ones with shorter body rows
\* included, the header line and every body line have as many fields as
\* the header row has cells.
C2_FieldCounts ==
  (/\ Called
   /\ Len(table0) >= 1
   /\ Len(table0[1]) >= 1
   /\ \A r \in 1..Len(table0) : Len(table0[r]) <= Len(table0[1])) =>
    LET lines == Lines(ret[1])
    IN  \A l \in 1..Len(lines) :
          l # 2 => Len(Fields(lines[l])) = Len(table0[1])

\* C3: after a call the caller's table is what it was before the call.
C3_ArgumentUnchanged == Called => table = table0

ClaimedExampleOutput ==
  <<"|"," ","T","i","t","l","e"," ","|"," ","D","e","s","c","r","i","p","t",
    "i","o","n"," "," "," "," "," ","|","\n","|"," ","-","-","-","-","-",
    " ","|"," ","-","-","-","-","-","-","-","-","-","-","-","-","-","-","-",
    "-"," ","|","\n","|"," ","x"," "," "," "," "," ","|"," ","a"," ","l",
    "o","n","g","e","r"," ","v","a","l","u","e"," "," ","|">>

ExampleOutput ==
  <<"|"," ","T","i","t","l","e"," ","|"," ","D","e","s","c","r","i","p","t",
    "i","o","n"," "," "," "," ","|","\n","|"," ","-","-","-","-","-"," ",
    "|"," ","-","-","-","-","-","-","-","-","-","-","-","-","-","-"," ","|",
    "\n","|"," ","x"," "," "," "," "," ","|"," ","a"," ","l","o","n","g",
    "e","r"," ","v","a","l","u","e"," ","|">>

\* C6 as stated: the example table renders with a 15-character second
\* column on the header and body lines and 16 dashes on the separator.
C6_ClaimedExample ==
  (Called /\ table0 = ExampleTable) => ret[1] = ClaimedExampleOutput

\* C6 as the code has it: the example table renders as
\* `| Title | Description    |`, `| ----- | -------------- |`,
\* `| x     | a longer value |`, both columns as wide as their longest
\* cell (5 and 14).
C6_Example ==
  (Called /\ table0 = ExampleTable) => ret[1] = ExampleOutput

C6_Witness == Called /\ table0 = ExampleTable /\ Len(Lines(ret[1])) = 3

HeaderOnlyOutput ==
  <<"|"," ","A"," ","|"," ","B"," ","|","\n","|"," ","-"," ","|"," ","-",
    " ","|">>

\* C7: the result is `**No data**` exactly for the table without rows; a
\* header-only table renders two lines, the unpadded header cells and as
\* many dashes per column as the header cell has characters, and [["A","B"]] renders `| A | B |`, `| - | - |`.
C7_NoDataIffNoRows ==
  Called =>
    /\ (ret[1] = NoData) <=> (Len(table0) = 0)
    /\ Len(table0) = 1 =>
         LET lines == Lines(ret[1])
             n == Len(table0[1])
         IN  /\ Len(lines) = 2
             /\ Framed(lines[1]) /\ Framed(lines[2])
             /\ n >= 1 =>
                  /\ Fields(lines[1]) = table0[1]
                  /\ Len(Fields(lines[2])) = n
                  /\ \A i \in 1..n :
                       /\ AllOf(Fields(lines[2])[i], "-")
                       /\ Len(Fields(lines[2])[i]) = Len(table0[1][i])
    /\ table0 = HeaderOnlyTable => ret[1] = HeaderOnlyOutput

C7_Witness ==
  /\ Called /\ Len(table0) = 1 /\ Len(table0[1]) = 2
  /\ ret[1] # NoData /\ Len(Lines(ret[1])) = 2

\* C10: a second call on the same table, made after the first returned,
\* returns the string the first call returned.
C10_SecondCallSame == Len(ret) >= 2 => ret[2] = ret[1]

C10_Witness == Len(ret) = 2 /\ table0 # table /\ ret[1] # NoData

----------------------------------------------------------------------------
(* Claim about markdownEscape, checked under SpecEsc.                      *)

Entity(ch) ==
  IF ch = "&" THEN <<"&","a","m","p",";">>
  ELSE IF ch = "<" THEN <<"&","l","t",";">>
  ELSE IF ch = ">" THEN <<"&","g","t",";">>
  ELSE IF ch = "|" THEN <<"&","v","e","r","t",";">>
  ELSE <<ch>>

RECURSIVE SinglePass(_)
SinglePass(s) == IF Len(s) = 0 THEN <<>> ELSE Entity(s[1]) \o SinglePass(Tail(s))

\* C8: markdownEscape is the one-pass substitution of & < > | by their
\* entities, every other character kept: an ampersand that a substitution
\* introduced is not escaped again, and no raw < > | is left.
C8_SinglePassEscape ==
  escaped # Pending =>
    /\ escaped = SinglePass(text)
    /\ \A k \in 1..Len(escaped) : escaped[k] \notin {"<", ">", "|"}

C8_Witness == escaped # Pending /\ text = <<"<", "&", "|">>

----------------------------------------------------------------------------
(* Claims about generateMarkdown and the splice, checked under SpecGen.    *)

TrimEnd(f) ==
  LET keep == { k \in 1..Len(f) : f[k] # " " }
  IN  IF keep = {} THEN <<>>
      ELSE SubSeq(f, 1, CHOOSE k \in keep : \A j \in keep : j <= k)

TrimmedFields(line) ==
  [i \in 1..Len(Fields(line)) |-> TrimEnd(Fields(line)[i])]

Declared(list) == list.present /\ Len(list.value) >= 1

ExpectedCommandRow(c) ==
  << <<Backtick>> \o c.title \o <<Backtick>>, SinglePass(c.description) >>

ExpectedPreferenceRow(p) ==
  << <<Backtick>> \o p.name \o <<Backtick>>,
     SinglePass(p.description),
     IF p.required = "true" THEN <<Backtick, "Y", "e", "s", Backtick>>
                            ELSE <<Backtick, "N", "o", Backtick>>,
     IF p.default.present THEN SinglePass(p.default.value)
                          ELSE <<"u","n","d","e","f","i","n","e","d">> >>

\* a rendered section: the placeholder exactly for an absent or empty list;
\* otherwise the header line, the separator and one line per item, in order
SectionRendered(rendered, list, header, ExpectedRow(_)) ==
  /\ (rendered = NoData) <=> ~Declared(list)
  /\ Declared(list) =>
       LET lines == Lines(rendered)
       IN  /\ Len(lines) = Len(list.value) + 2
           /\ TrimmedFields(lines[1]) = header
           /\ \A k \in 1..Len(list.value) :
                TrimmedFields(lines[k + 2]) = ExpectedRow(list.value[k])

Region(doc, groups) ==
  SubSeq(doc, FirstMatch(doc, groups)[1] + 1, FirstMatch(doc, groups)[2] - 1)

HasPair(doc, groups) == FirstMatch(doc, groups)[1] # 0

\* both regions of doc hold the rendered tables between blank lines
HoldsRendered(doc, markdown) ==
  /\ HasPair(doc, CommandsGroups) /\ HasPair(doc, ConfigsGroups)
  /\ Region(doc, CommandsGroups) = NN \o markdown.commandsTable \o NN
  /\ Region(doc, ConfigsGroups) = NN \o markdown.configsTable \o NN

\* C4: when the regions of the README read by a run already hold the newly
\* rendered tables, the run computes content equal to what it read and does
\* not write.
C4_SpliceIdempotent ==
  (runs >= 1 /\ HoldsRendered(raw, tables)) => (content = raw /\ writes = 0)

\* doc with the regions of its two marker pairs replaced, the rest kept
WithRegions(doc, first, second, firstTable, secondTable) ==
  SubSeq(doc, 1, first[1]) \o NN \o firstTable \o NN
    \o SubSeq(doc, first[2], second[1]) \o NN \o secondTable \o NN
    \o SubSeq(doc, second[2], Len(doc))

\* C5: for a README with a commands marker pair and a configs marker pair,
\* the spliced content has exactly the rendered table between blank lines
\* in each region, keeps the markers and keeps all text outside the regions.
C5_SpliceFrame ==
  LET c == FirstMatch(raw, CommandsGroups)
      g == FirstMatch(raw, ConfigsGroups)
  IN  (runs >= 1 /\ c[1] # 0 /\ g[1] # 0 /\ (c[2] < g[1] \/ g[2] < c[1])) =>
        content = (IF c[2] < g[1]
                   THEN WithRegions(raw, c, g, tables.commandsTable, tables.configsTable)
                   ELSE WithRegions(raw, g, c, tables.configsTable, tables.commandsTable))

====
